---- MODULE Spec2Model ----
(***************************************************************************)
(* Model of src/main.rs: the one-shot pipeline                             *)
(*   dotenv -> APOD_KEY -> fetch_image_data -> download_image ->           *)
(*   set_wallpaper                                                         *)
(* together with the environment it acts on: the process environment, the  *)
(* HTTP server's answers, the file system under the pictures directory and *)
(* the external wallpaper commands.  One action per fallible step of the   *)
(* source; the outcome of every external call is an input drawn with \E.   *)
(***************************************************************************)
EXTENDS Integers, Sequences, FiniteSets, TLC

\* ------------------------------------------------------------------ bounds
MaxRuns == 2
MaxBody == 2
MaxFields == 2
MaxItems == 2
MaxStderr == 1

\* ------------------------------------------------------- program constants
PanicExitCode == 101
SuccessExitCode == 0
ReplacementChar == 65533

VARIABLES
    pc,          \* position of the process in main and its callees
    run,         \* number of process starts so far
    targetOs,    \* build target: "linux", "windows" or "other"
    pictureDir,  \* what dirs::picture_dir() answers (an Option<PathBuf>)
    dirExists,   \* whether that directory exists on disk
    fs,          \* file system: path -> file
    fsAtStart,   \* the file system as it was when this process started
    createdEver, \* paths File::create succeeded on, over all runs
    destOfRun,   \* run -> Option of the path download_image was called with
    apodKey,     \* env var APOD_KEY of this process (an Option)
    apiUrl,      \* local api_url of main
    netCalls,    \* URLs of the HTTP GETs issued by this process, in order
    lastBody,    \* Option: body of the metadata response as json() read it
    apiResult,   \* Option: Result returned by fetch_image_data
    dlArgs,      \* Option: arguments of the running download_image call
    content,     \* Option: the response body buffered by response.bytes()
    dlResult,    \* Option: Result returned by download_image
    xdg,         \* Option: what env::var("XDG_CURRENT_DESKTOP") answered
    cmdOut,      \* Option: Output of the external command
    swResult,    \* Option: Result returned by set_wallpaper
    cmds,        \* external commands spawned by this process, in order
    nativeCalls, \* native wallpaper calls made by this process, in order
    calls,       \* call/return events of the three stages, in order
    stdout,      \* lines printed with println!
    stderr,      \* lines printed with eprintln! or by the panic handler
    exitCode     \* Option: exit status of the process

vars == <<pc, run, targetOs, pictureDir, dirExists, fs, fsAtStart, createdEver,
          destOfRun, apodKey, apiUrl, netCalls, lastBody, apiResult, dlArgs,
          content, dlResult, xdg, cmdOut, swResult, cmds, nativeCalls, calls,
          stdout, stderr, exitCode>>

\* ----------------------------------------------------------- Option, Result
None == [some |-> FALSE]
Some(x) == [some |-> TRUE, val |-> x]
Ok(x) == [ok |-> TRUE, val |-> x]
Error(m, d) == [msg |-> m, detail |-> d]
Err(m, d) == [ok |-> FALSE, err |-> Error(m, d)]

\* ------------------------------------------------------------------- paths
PathJoin(p, name) == [comps |-> Append(p.comps, name), utf8 |-> p.utf8]
ToStr(p) == IF p.utf8 THEN Some(p.comps) ELSE None
PathBufFrom(s) == [comps |-> s, utf8 |-> TRUE]

PicturesPath == [comps |-> <<"home", "Pictures">>, utf8 |-> TRUE]
NonUtf8PicturesPath == [comps |-> <<"home", "Pictures">>, utf8 |-> FALSE]
PictureDirAnswers == {None, Some(PicturesPath), Some(NonUtf8PicturesPath)}

FileNames == {"apod.jpg", "apod-2.jpg"}
Paths == {PathJoin(PicturesPath, n) : n \in FileNames}

\* file system: every path holds a file or nothing
NoFile == [exists |-> FALSE]
FileOf(bytes) == [exists |-> TRUE, data |-> bytes]

Bytes == {0, 255}
SeqsUpTo(S, n) == UNION {[1..k -> S] : k \in 0..n}
Bodies == SeqsUpTo(Bytes, MaxBody)
\* a file left by an earlier download, longer than any body served here
OldContent == [i \in 1..(MaxBody + 1) |-> 255]
IsPrefix(a, b) == Len(a) <= Len(b) /\ a = SubSeq(b, 1, Len(a))

\* File::create: opens write-only, creates the file if absent, truncates it if present
FileCreate_noTruncate(f, p) == IF f[p].exists THEN f ELSE [f EXCEPT ![p] = FileOf(<<>>)]
FileCreate(f, p) == [f EXCEPT ![p] = FileOf(<<>>)]

\* the bytes a file holds after written was written from offset 0 of the open file
WriteFromStart(old, written) ==
    IF Len(written) >= Len(old) THEN written
    ELSE written \o SubSeq(old, Len(written) + 1, Len(old))

\* ------------------------------------------------------------- environment
Keys == {"DEMO_KEY"}
OptKeys == {None} \cup {Some(k) : k \in Keys}

\* format!("https://api.nasa.gov/planetary/apod?api_key={api_key}")
ApiUrl(key) == <<"https://api.nasa.gov/planetary/apod?api_key=", key>>

\* let filename = "apod.jpg"; picture_dir().join(filename)
DownloadPath_perRun(dir) == PathJoin(dir, IF run = 1 THEN "apod.jpg" ELSE "apod-2.jpg")
DownloadPath(dir) == PathJoin(dir, "apod.jpg")

\* strings of XDG_CURRENT_DESKTOP are sequences of characters
GNOME == <<"G", "N", "O", "M", "E">>
KDE == <<"K", "D", "E">>
DesktopStrings ==
    { <<>>,
      GNOME,
      KDE,
      <<"u", ":">> \o GNOME,
      GNOME \o <<":">> \o KDE,
      KDE \o <<":">> \o GNOME,
      <<"X", "F", "C", "E">>,
      <<"g", "n", "o", "m", "e">>,
      <<"G", "N", "O", "M">>,
      <<"K", "D">> }
\* what env::var("XDG_CURRENT_DESKTOP") answers
EnvVarResults ==
    {Err("NotPresent", <<>>), Err("NotUnicode", <<>>)} \cup {Ok(s) : s \in DesktopStrings}

\* Result::unwrap_or_default on a Result<String, _>
UnwrapOrDefault(r) == IF r.ok THEN r.val ELSE <<>>

\* str::contains
Contains(s, sub) ==
    \E i \in 0..(Len(s) - Len(sub)) : SubSeq(s, i + 1, i + Len(sub)) = sub

\* the arm of match desktop_env.as_str() that is taken: the first whose guard holds
DesktopBranch_kdeFirst(env) ==
    IF Contains(env, KDE) THEN "KDE"
    ELSE IF Contains(env, GNOME) THEN "GNOME"
    ELSE "unsupported"
DesktopBranch_defaultGnome(env) ==
    IF Contains(env, GNOME) \/ env = <<>> THEN "GNOME"
    ELSE IF Contains(env, KDE) THEN "KDE"
    ELSE "unsupported"
DesktopBranch(env) ==
    IF Contains(env, GNOME) THEN "GNOME"
    ELSE IF Contains(env, KDE) THEN "KDE"
    ELSE "unsupported"

\* format!("file://{}", path.display())
FileUri(path) == <<"file://", path.comps>>

GsettingsCommand(path) ==
    [prog |-> "gsettings",
     args |-> <<"set", "org.gnome.desktop.background", "picture-uri", FileUri(path)>>]
QdbusCommand(path) ==
    [prog |-> "qdbus",
     args |-> <<"org.kde.plasmashell", "/PlasmaShell",
                "org.kde.PlasmaShell.evaluateScript", FileUri(path)>>]
CommandOf(branch, path) ==
    IF branch = "GNOME" THEN GsettingsCommand(path) ELSE QdbusCommand(path)
FailurePrefix(branch) ==
    IF branch = "GNOME" THEN "Failed to set GNOME wallpaper: "
    ELSE "Failed to set KDE wallpaper: "

\* what Command::output() answers: the spawn fails, or the child ends with a
\* status and its captured standard error
StderrBytes == {101, 255}
CmdOutputs ==
    {[spawned |-> FALSE, success |-> FALSE, stderr |-> <<>>]} \cup
    {[spawned |-> TRUE, success |-> s, stderr |-> e] :
        s \in BOOLEAN, e \in SeqsUpTo(StderrBytes, MaxStderr)}

\* String::from_utf8_lossy on bytes that are ASCII or the invalid byte 0xFF
FromUtf8Lossy(b) == [i \in DOMAIN b |-> IF b[i] < 128 THEN b[i] ELSE ReplacementChar]

\* --------------------------------------------------------------------- JSON
Urls == {"https://example.com/img.jpg", "https://example.com/b.jpg"}
JStr(s) == [t |-> "str", s |-> s]
JNum == [t |-> "num", s |-> ""]
JNull == [t |-> "null", s |-> ""]
JScalars == {JStr(u) : u \in Urls} \cup {JNum, JNull}
JKeys == {"hdurl", "title"}
JObj(fields) == [t |-> "obj", fields |-> fields, items |-> <<>>]
JArr(items) == [t |-> "arr", fields |-> <<>>, items |-> items]
JScalarDoc(v) == [t |-> v.t, fields |-> <<>>, items |-> <<v>>]
NotJson == [t |-> "invalid", fields |-> <<>>, items |-> <<>>]
\* the bodies the metadata endpoint may answer with
ApiBodies ==
    {JObj(f) : f \in SeqsUpTo(JKeys \X JScalars, MaxFields)} \cup
    {JArr(a) : a \in SeqsUpTo(JScalars, MaxItems)} \cup
    {JScalarDoc(v) : v \in JScalars} \cup {NotJson}

ApiResponse(hdurl) == [hdurl |-> hdurl]

\* serde_json::from_slice::<ApiResponse>: the derived Deserialize of a struct with
\* the one field hdurl: String.  A map is visited key by key (unknown keys are
\* skipped, a second hdurl is a duplicate-field error, a missing one a
\* missing-field error); a sequence is visited positionally.
HdurlIndexes(fields) == {i \in DOMAIN fields : fields[i][1] = "hdurl"}
Deserialize_default(b) ==
    IF b.t = "obj" /\ HdurlIndexes(b.fields) = {}
    THEN Ok(ApiResponse(""))
    ELSE Err("error decoding response body", <<>>)
Deserialize(b) ==
    IF b.t = "obj" THEN
        LET idx == HdurlIndexes(b.fields) IN
        IF idx = {} THEN Err("missing field hdurl", <<>>)
        ELSE LET first == CHOOSE i \in idx : \A j \in idx : i <= j IN
             IF b.fields[first][2].t # "str" THEN Err("invalid type", <<>>)
             ELSE IF Cardinality(idx) > 1 THEN Err("duplicate field hdurl", <<>>)
             ELSE Ok(ApiResponse(b.fields[first][2].s))
    ELSE IF b.t = "arr" THEN
        IF Len(b.items) = 0 THEN Err("invalid length 0", <<>>)
        ELSE IF b.items[1].t # "str" THEN Err("invalid type", <<>>)
        ELSE IF Len(b.items) > 1 THEN Err("trailing characters", <<>>)
        ELSE Ok(ApiResponse(b.items[1].s))
    ELSE IF b.t = "invalid" THEN Err("expected value", <<>>)
    ELSE Err("invalid type", <<>>)

\* SystemParametersInfoW argument: OsStr::encode_wide().chain(Some(0))
EncodeWide(path) == [wide |-> path.comps, nul |-> TRUE]

\* ------------------------------------------------------------------ events
Call(fn) == [fn |-> fn, ev |-> "call"]
Ret(fn, result) == [fn |-> fn, ev |-> IF result.ok THEN "ok" ELSE "err"]
Line(prefix, e) == [prefix |-> prefix, e |-> e]

\* --------------------------------------------------------------------- Init
InitialFiles ==
    {[p \in Paths |-> NoFile],
     [p \in Paths |-> IF p = PathJoin(PicturesPath, "apod.jpg")
                      THEN FileOf(OldContent) ELSE NoFile]}

Init ==
    /\ pc = "idle"
    /\ run = 0
    /\ targetOs \in {"linux", "windows", "other"}
    /\ pictureDir \in PictureDirAnswers
    /\ dirExists \in BOOLEAN
    /\ fs \in IF dirExists THEN InitialFiles ELSE {[p \in Paths |-> NoFile]}
    /\ fsAtStart = fs
    /\ createdEver = {}
    /\ destOfRun = [r \in 1..MaxRuns |-> None]
    /\ apodKey = None
    /\ apiUrl = None
    /\ netCalls = <<>>
    /\ lastBody = None
    /\ apiResult = None
    /\ dlArgs = None
    /\ content = None
    /\ dlResult = None
    /\ xdg = None
    /\ cmdOut = None
    /\ swResult = None
    /\ cmds = <<>>
    /\ nativeCalls = <<>>
    /\ calls = <<>>
    /\ stdout = <<>>
    /\ stderr = <<>>
    /\ exitCode = None

machine == <<targetOs, pictureDir, dirExists>>
files == <<fs, createdEver>>
fetchVars == <<lastBody, apiResult>>
dlVars == <<dlArgs, content, dlResult>>
swVars == <<xdg, cmdOut, swResult, cmds, nativeCalls>>
output == <<stdout, stderr, exitCode>>

\* a new process is started (by the user or a scheduler): fresh locals, the
\* environment of the new process is an input
process_start ==
    /\ pc \in {"idle", "exited"}
    /\ run < MaxRuns
    /\ run' = run + 1
    /\ pc' = "dotenv"
    /\ \E k \in OptKeys : apodKey' = k
    /\ fsAtStart' = fs
    /\ apiUrl' = None
    /\ netCalls' = <<>>
    /\ lastBody' = None
    /\ apiResult' = None
    /\ dlArgs' = None
    /\ content' = None
    /\ dlResult' = None
    /\ xdg' = None
    /\ cmdOut' = None
    /\ swResult' = None
    /\ cmds' = <<>>
    /\ nativeCalls' = <<>>
    /\ calls' = <<>>
    /\ stdout' = <<>>
    /\ stderr' = <<>>
    /\ exitCode' = None
    /\ UNCHANGED <<machine, files, destOfRun>>

\* dotenv().ok(): a .env file, if there is one, sets the variables the
\* environment does not have yet; any failure is dropped
dotenv ==
    /\ pc = "dotenv"
    /\ \E fileKey \in OptKeys :
          apodKey' = IF apodKey.some THEN apodKey ELSE fileKey
    /\ pc' = "read_key"
    /\ UNCHANGED <<run, machine, files, fsAtStart, destOfRun, apiUrl, netCalls,
                   fetchVars, dlVars, swVars, calls, output>>

\* a panic in main: the message goes to the error stream, the process ends
\* with the panic exit status
Panic(msg) ==
    /\ stderr' = Append(stderr, Line("thread main panicked: ", Error(msg, <<>>)))
    /\ exitCode' = Some(PanicExitCode)
    /\ pc' = "exited"

\* main returns: the process ends with the success status
ReturnFromMain ==
    /\ exitCode' = Some(SuccessExitCode)
    /\ pc' = "exited"

\* env::var("APOD_KEY").expect(..); format!(..); the call of fetch_image_data
main_read_key_default ==
    /\ pc = "read_key"
    /\ apiUrl' = Some(ApiUrl(IF apodKey.some THEN apodKey.val ELSE ""))
    /\ calls' = Append(calls, Call("fetch_image_data"))
    /\ pc' = "fetch_get"
    /\ UNCHANGED <<output, run, machine, files, fsAtStart, destOfRun, apodKey,
                   netCalls, fetchVars, dlVars, swVars>>
main_read_key ==
    /\ pc = "read_key"
    /\ IF apodKey.some
       THEN /\ apiUrl' = Some(ApiUrl(apodKey.val))
            /\ calls' = Append(calls, Call("fetch_image_data"))
            /\ pc' = "fetch_get"
            /\ UNCHANGED output
       ELSE /\ Panic("APOD_KEY must be set in the environment")
            /\ UNCHANGED <<stdout, apiUrl, calls>>
    /\ UNCHANGED <<run, machine, files, fsAtStart, destOfRun, apodKey, netCalls,
                   fetchVars, dlVars, swVars>>

\* let response = get(api_url)?;
fetch_image_data_get ==
    /\ pc = "fetch_get"
    /\ netCalls' = Append(netCalls, apiUrl.val)
    /\ \E sent \in BOOLEAN :
          IF sent
          THEN /\ pc' = "fetch_json"
               /\ UNCHANGED <<apiResult, calls>>
          ELSE /\ apiResult' = Some(Err("error sending request", <<>>))
               /\ calls' = Append(calls, Ret("fetch_image_data", apiResult'.val))
               /\ pc' = "fetch_ret"
    /\ UNCHANGED <<run, machine, files, fsAtStart, destOfRun, apodKey, apiUrl,
                   lastBody, dlVars, swVars, output>>

\* let api_response: ApiResponse = response.json()?; Ok(api_response)
\* (the HTTP status is not looked at)
fetch_image_data_json ==
    /\ pc = "fetch_json"
    /\ \E read \in BOOLEAN :
          IF read
          THEN \E b \in ApiBodies :
                  /\ lastBody' = Some(b)
                  /\ apiResult' = Some(Deserialize(b))
          ELSE /\ apiResult' = Some(Err("error reading response body", <<>>))
               /\ UNCHANGED lastBody
    /\ calls' = Append(calls, Ret("fetch_image_data", apiResult'.val))
    /\ pc' = "fetch_ret"
    /\ UNCHANGED <<run, machine, files, fsAtStart, destOfRun, apodKey, apiUrl,
                   netCalls, dlVars, swVars, output>>

\* match fetch_image_data(&api_url) { Ok(..) => println!, picture_dir().expect(..)
\* .join(filename), to_str().unwrap(), the call of download_image; Err(e) => eprintln! }
main_match_fetch_default ==
    /\ pc = "fetch_ret"
    /\ lastBody' = None
    /\ stdout' = Append(stdout, "Fetched image data")
    /\ pictureDir.some /\ pictureDir.val.utf8
    /\ dlArgs' = Some([url |-> IF apiResult.val.ok THEN apiResult.val.val.hdurl ELSE "",
                       filename |-> ToStr(DownloadPath(pictureDir.val)).val])
    /\ destOfRun' = [destOfRun EXCEPT ![run] = Some(DownloadPath(pictureDir.val))]
    /\ calls' = Append(calls, Call("download_image"))
    /\ pc' = "dl_get"
    /\ UNCHANGED <<stderr, exitCode>>
    /\ UNCHANGED <<run, machine, files, fsAtStart, apodKey, apiUrl, netCalls,
                   apiResult, content, dlResult, swVars>>
main_match_fetch ==
    /\ pc = "fetch_ret"
    /\ lastBody' = None
    /\ IF apiResult.val.ok
       THEN /\ stdout' = Append(stdout, "Fetched image data")
            /\ IF ~pictureDir.some
               THEN /\ Panic("Could not find picture directory")
                    /\ UNCHANGED <<dlArgs, destOfRun, calls>>
               ELSE IF ~ToStr(DownloadPath(pictureDir.val)).some
               THEN /\ Panic("called Option::unwrap() on a None value")
                    /\ UNCHANGED <<dlArgs, destOfRun, calls>>
               ELSE /\ dlArgs' = Some([url |-> apiResult.val.val.hdurl,
                                       filename |-> ToStr(DownloadPath(pictureDir.val)).val])
                    /\ destOfRun' = [destOfRun EXCEPT
                                        ![run] = Some(DownloadPath(pictureDir.val))]
                    /\ calls' = Append(calls, Call("download_image"))
                    /\ pc' = "dl_get"
                    /\ UNCHANGED <<stderr, exitCode>>
       ELSE /\ stderr' = Append(stderr, Line("Failed to fetch image data: ", apiResult.val.err))
            /\ ReturnFromMain
            /\ UNCHANGED <<stdout, dlArgs, destOfRun, calls>>
    /\ UNCHANGED <<run, machine, files, fsAtStart, apodKey, apiUrl, netCalls,
                   apiResult, content, dlResult, swVars>>

\* the path File::create is given: the &str as a Path
DestOf(args) == PathBufFrom(args.filename)

\* let response = get(url)?;
download_image_get_createFirst ==
    /\ pc = "dl_get"
    /\ netCalls' = Append(netCalls, dlArgs.val.url)
    /\ fs' = IF dirExists THEN FileCreate(fs, DestOf(dlArgs.val)) ELSE fs
    /\ \E sent \in BOOLEAN :
          IF sent
          THEN /\ pc' = "dl_create"
               /\ UNCHANGED <<dlResult, calls>>
          ELSE /\ dlResult' = Some(Err("error sending request", <<>>))
               /\ calls' = Append(calls, Ret("download_image", dlResult'.val))
               /\ pc' = "dl_ret"
    /\ UNCHANGED <<run, machine, createdEver, fsAtStart, destOfRun, apodKey, apiUrl,
                   fetchVars, dlArgs, content, swVars, output>>
download_image_get ==
    /\ pc = "dl_get"
    /\ netCalls' = Append(netCalls, dlArgs.val.url)
    /\ \E sent \in BOOLEAN :
          IF sent
          THEN /\ pc' = "dl_create"
               /\ UNCHANGED <<dlResult, calls>>
          ELSE /\ dlResult' = Some(Err("error sending request", <<>>))
               /\ calls' = Append(calls, Ret("download_image", dlResult'.val))
               /\ pc' = "dl_ret"
    /\ UNCHANGED <<run, machine, files, fsAtStart, destOfRun, apodKey, apiUrl,
                   fetchVars, dlArgs, content, swVars, output>>

\* let mut out = File::create(filename)?;
download_image_create_unwrap ==
    /\ pc = "dl_create"
    /\ IF dirExists
       THEN /\ fs' = FileCreate(fs, DestOf(dlArgs.val))
            /\ createdEver' = createdEver \cup {DestOf(dlArgs.val)}
            /\ pc' = "dl_bytes"
            /\ UNCHANGED output
       ELSE /\ Panic("called Result::unwrap() on an Err value")
            /\ UNCHANGED <<stdout, files>>
    /\ UNCHANGED <<run, machine, fsAtStart, destOfRun, apodKey, apiUrl, netCalls,
                   fetchVars, dlVars, calls, swVars>>
download_image_create ==
    /\ pc = "dl_create"
    /\ \E denied \in BOOLEAN :
          IF ~dirExists
          THEN /\ dlResult' = Some(Err("No such file or directory (os error 2)", <<>>))
               /\ calls' = Append(calls, Ret("download_image", dlResult'.val))
               /\ pc' = "dl_ret"
               /\ UNCHANGED files
          ELSE IF denied
          THEN /\ dlResult' = Some(Err("Permission denied (os error 13)", <<>>))
               /\ calls' = Append(calls, Ret("download_image", dlResult'.val))
               /\ pc' = "dl_ret"
               /\ UNCHANGED files
          ELSE /\ fs' = FileCreate(fs, DestOf(dlArgs.val))
               /\ createdEver' = createdEver \cup {DestOf(dlArgs.val)}
               /\ pc' = "dl_bytes"
               /\ UNCHANGED <<dlResult, calls>>
    /\ UNCHANGED <<run, machine, fsAtStart, destOfRun, apodKey, apiUrl, netCalls,
                   fetchVars, dlArgs, content, swVars, output>>

\* let mut content = std::io::Cursor::new(response.bytes()?);
download_image_bytes ==
    /\ pc = "dl_bytes"
    /\ \E read \in BOOLEAN :
          IF read
          THEN /\ \E b \in Bodies : content' = Some(b)
               /\ pc' = "dl_copy"
               /\ UNCHANGED <<dlResult, calls>>
          ELSE /\ dlResult' = Some(Err("error decoding response body", <<>>))
               /\ calls' = Append(calls, Ret("download_image", dlResult'.val))
               /\ pc' = "dl_ret"
               /\ UNCHANGED content
    /\ UNCHANGED <<run, machine, files, fsAtStart, destOfRun, apodKey, apiUrl,
                   netCalls, fetchVars, dlArgs, swVars, output>>

\* copy(&mut content, &mut out)?; Ok(PathBuf::from(filename))
\* the first k bytes reach the file; the write of the rest fails unless k is all
download_image_copy ==
    /\ pc = "dl_copy"
    /\ \E k \in 0..Len(content.val) :
          /\ fs' = [fs EXCEPT ![DestOf(dlArgs.val)] =
                       FileOf(WriteFromStart(@.data, SubSeq(content.val, 1, k)))]
          /\ dlResult' = Some(IF k = Len(content.val)
                              THEN Ok(PathBufFrom(dlArgs.val.filename))
                              ELSE Err("No space left on device (os error 28)", <<>>))
    /\ calls' = Append(calls, Ret("download_image", dlResult'.val))
    /\ pc' = "dl_ret"
    /\ UNCHANGED <<run, machine, createdEver, fsAtStart, destOfRun, apodKey, apiUrl,
                   netCalls, fetchVars, dlArgs, content, swVars, output>>

\* match download_image(..) { Ok(path) => println!, then the cfg-selected
\* set_wallpaper call; Err(e) => eprintln! }
main_match_download ==
    /\ pc = "dl_ret"
    /\ dlArgs' = None
    /\ content' = None
    /\ IF dlResult.val.ok
       THEN /\ stdout' = Append(stdout, "Image downloaded to")
            /\ IF targetOs = "other"
               THEN /\ ReturnFromMain
                    /\ UNCHANGED <<stderr, calls>>
               ELSE /\ calls' = Append(calls, Call("set_wallpaper"))
                    /\ pc' = IF targetOs = "windows" THEN "sw_win" ELSE "sw_env"
                    /\ UNCHANGED <<stderr, exitCode>>
       ELSE /\ stderr' = Append(stderr, Line("Failed to download image: ", dlResult.val.err))
            /\ ReturnFromMain
            /\ UNCHANGED <<stdout, calls>>
    /\ UNCHANGED <<run, machine, files, fsAtStart, destOfRun, apodKey, apiUrl,
                   netCalls, fetchVars, dlResult, swVars>>

\* windows_background::set_wallpaper: the native call, its result dropped; Ok(())
set_wallpaper_windows ==
    /\ pc = "sw_win"
    /\ \E applied \in BOOLEAN :
          nativeCalls' = Append(nativeCalls,
              [fn |-> "SystemParametersInfoW", action |-> "SPI_SETDESKWALLPAPER",
               pvParam |-> EncodeWide(dlResult.val.val), returned |-> applied])
    /\ swResult' = Some(Ok("unit"))
    /\ calls' = Append(calls, Ret("set_wallpaper", swResult'.val))
    /\ pc' = "sw_ret"
    /\ UNCHANGED <<run, machine, files, fsAtStart, destOfRun, apodKey, apiUrl,
                   netCalls, fetchVars, dlVars, xdg, cmdOut, cmds, output>>

\* linux_background::set_wallpaper: env::var(..).unwrap_or_default() and the match
set_wallpaper_linux_env ==
    /\ pc = "sw_env"
    /\ \E r \in EnvVarResults :
          /\ xdg' = Some(r)
          /\ IF DesktopBranch(UnwrapOrDefault(r)) = "unsupported"
             THEN /\ swResult' = Some(Err("Unsupported desktop environment", <<>>))
                  /\ calls' = Append(calls, Ret("set_wallpaper", swResult'.val))
                  /\ pc' = "sw_ret"
             ELSE /\ pc' = "sw_cmd"
                  /\ UNCHANGED <<swResult, calls>>
    /\ UNCHANGED <<run, machine, files, fsAtStart, destOfRun, apodKey, apiUrl,
                   netCalls, fetchVars, dlVars, cmdOut, cmds, nativeCalls, output>>

\* Command::new(..).args(..).output()?; the status check; Ok(())
set_wallpaper_linux_command ==
    /\ pc = "sw_cmd"
    /\ cmds' = Append(cmds, CommandOf(DesktopBranch(UnwrapOrDefault(xdg.val)), dlResult.val.val))
    /\ \E out \in CmdOutputs :
          /\ cmdOut' = Some(out)
          /\ swResult' = Some(
                IF ~out.spawned THEN Err("No such file or directory (os error 2)", <<>>)
                ELSE IF ~out.success
                THEN Err(FailurePrefix(DesktopBranch(UnwrapOrDefault(xdg.val))), FromUtf8Lossy(out.stderr))
                ELSE Ok("unit"))
    /\ calls' = Append(calls, Ret("set_wallpaper", swResult'.val))
    /\ pc' = "sw_ret"
    /\ UNCHANGED <<run, machine, files, fsAtStart, destOfRun, apodKey, apiUrl,
                   netCalls, fetchVars, dlVars, xdg, nativeCalls, output>>

\* if let Err(e) = ..::set_wallpaper(&path) { eprintln!(..) }; main returns
main_wallpaper_result_abort ==
    /\ pc = "sw_ret"
    /\ IF swResult.val.ok
       THEN /\ exitCode' = Some(SuccessExitCode)
            /\ UNCHANGED stderr
       ELSE /\ stderr' = Append(stderr, Line("Failed to set wallpaper: ", swResult.val.err))
            /\ exitCode' = Some(1)
    /\ pc' = "exited"
    /\ UNCHANGED <<run, machine, files, fsAtStart, destOfRun, apodKey, apiUrl,
                   netCalls, fetchVars, dlVars, swVars, calls, stdout>>
main_wallpaper_result ==
    /\ pc = "sw_ret"
    /\ IF swResult.val.ok
       THEN UNCHANGED stderr
       ELSE stderr' = Append(stderr,
                Line(IF targetOs = "windows" THEN "Failed to set wallpaper on Windows: "
                     ELSE "Failed to set wallpaper on Linux: ", swResult.val.err))
    /\ ReturnFromMain
    /\ UNCHANGED <<run, machine, files, fsAtStart, destOfRun, apodKey, apiUrl,
                   netCalls, fetchVars, dlVars, swVars, calls, stdout>>

Next ==
    \/ process_start
    \/ dotenv
    \/ main_read_key
    \/ fetch_image_data_get
    \/ fetch_image_data_json
    \/ main_match_fetch
    \/ download_image_get
    \/ download_image_create
    \/ download_image_bytes
    \/ download_image_copy
    \/ main_match_download
    \/ set_wallpaper_windows
    \/ set_wallpaper_linux_env
    \/ set_wallpaper_linux_command
    \/ main_wallpaper_result

Spec == Init /\ [][Next]_vars

\* ------------------------------------------------------------------ claims
Dest == PathJoin(PicturesPath, "apod.jpg")
ExistingFiles == {p \in Paths : fs[p].exists}
Returned(fn, ev) == \E i \in DOMAIN calls : calls[i] = [fn |-> fn, ev |-> ev]
Position(e) == {i \in DOMAIN calls : calls[i] = e}
Stages == {"fetch_image_data", "download_image", "set_wallpaper"}
SendError == Error("error sending request", <<>>)
BodyError == Error("error decoding response body", <<>>)
NotFoundError == Error("No such file or directory (os error 2)", <<>>)
DeniedError == Error("Permission denied (os error 13)", <<>>)
WriteError == Error("No space left on device (os error 28)", <<>>)
UnsupportedError == Error("Unsupported desktop environment", <<>>)

\* C1: when APOD_KEY is not set after the .env load, the process goes from the
\* read of the variable straight to its end: no HTTP GET is issued, no file is
\* created or truncated, no wallpaper call is made and no command is spawned.
C1_NoActivityWithoutKey ==
    (pc \notin {"idle", "dotenv"} /\ ~apodKey.some) =>
        /\ pc \in {"read_key", "exited"}
        /\ netCalls = <<>>
        /\ fs = fsAtStart
        /\ cmds = <<>>
        /\ nativeCalls = <<>>
        /\ calls = <<>>
C1_Witness == pc = "exited" /\ ~apodKey.some /\ exitCode.some

\* C2: the stages run strictly forward and each at most once: download_image is
\* called only after fetch_image_data returned Ok, set_wallpaper only after
\* download_image returned Ok, and nothing follows a stage that returned an error.
C2_StagesForwardOnce ==
    /\ \A fn \in Stages : Cardinality(Position(Call(fn))) <= 1
    /\ \A i \in Position(Call("fetch_image_data")) : i = 1
    /\ \A i \in Position(Call("download_image")) :
          i = 3 /\ calls[2] = [fn |-> "fetch_image_data", ev |-> "ok"]
    /\ \A i \in Position(Call("set_wallpaper")) :
          i = 5 /\ calls[4] = [fn |-> "download_image", ev |-> "ok"]
    /\ \A i \in DOMAIN calls : calls[i].ev = "err" => i = Len(calls)
    /\ Len(netCalls) <= 2
    /\ Len(netCalls) = 2 => Returned("fetch_image_data", "ok")
    /\ fs # fsAtStart => Returned("fetch_image_data", "ok")
    /\ (cmds # <<>> \/ nativeCalls # <<>>) => Returned("download_image", "ok")
    /\ Len(cmds) + Len(nativeCalls) <= 1
C2_Witness ==
    /\ pc = "exited"
    /\ Len(calls) = 6
    /\ Returned("set_wallpaper", "ok")

\* C3: on Linux, when XDG_CURRENT_DESKTOP is absent, empty or holds a value with
\* neither "GNOME" nor "KDE" in it, set_wallpaper returns the error
\* "Unsupported desktop environment" and spawns no command.
C3_UnsupportedDesktop ==
    (targetOs = "linux" /\ pc \in {"sw_cmd", "sw_ret", "exited"} /\ xdg.some
        /\ (xdg.val.ok => ~Contains(xdg.val.val, GNOME) /\ ~Contains(xdg.val.val, KDE))) =>
        /\ pc # "sw_cmd"
        /\ swResult = Some([ok |-> FALSE, err |-> UnsupportedError])
        /\ cmds = <<>>
        /\ cmdOut = None
C3_Witness ==
    /\ pc = "sw_ret"
    /\ xdg = Some(Ok(<<"X", "F", "C", "E">>))
    /\ swResult.some

\* C4: whenever download_image returns Ok, the destination file holds exactly
\* the bytes of the response body, and the returned path is the destination
\* path that was passed in.
C4_FileIsBody ==
    (pc = "dl_ret" /\ dlResult.val.ok) =>
        /\ fs[Dest] = FileOf(content.val)
        /\ ToStr(dlResult.val.val) = Some(dlArgs.val.filename)
        /\ dlResult.val.val = destOfRun[run].val
C4_Witness ==
    /\ pc = "dl_ret"
    /\ dlResult.val.ok
    /\ fsAtStart[Dest] = FileOf(OldContent)
    /\ Len(content.val) = 1

\* C5 as stated: fetch_image_data returns Ok with hdurl = v exactly when the body
\* is a JSON object whose member hdurl is the string v.
ObjectWithHdurl(b, v) ==
    /\ b.t = "obj"
    /\ \E i \in DOMAIN b.fields :
          /\ HdurlIndexes(b.fields) = {i}
          /\ b.fields[i][2] = JStr(v)
FetchedHdurl(v) == apiResult.val.ok /\ apiResult.val.val.hdurl = v
C5_Original ==
    (pc = "fetch_ret" /\ lastBody.some) =>
        \A v \in Urls : FetchedHdurl(v) <=> ObjectWithHdurl(lastBody.val, v)
\* C5 (amended): fetch_image_data returns Ok with hdurl = v exactly when the body
\* that was read is a JSON object with a single member hdurl that is the string v
\* (other members ignored) or the one-element JSON array [v]; in every other case
\* it returns an error, never a default URL, and main then issues no download GET
\* and writes no file.
C5_FetchExact ==
    /\ (pc = "fetch_ret" /\ lastBody.some) =>
          \A v \in Urls :
             FetchedHdurl(v) <=> \/ ObjectWithHdurl(lastBody.val, v)
                                 \/ lastBody.val = JArr(<<JStr(v)>>)
    /\ (apiResult.some /\ apiResult.val.ok) =>
          /\ apiResult.val.val.hdurl \in Urls
          /\ Len(calls) >= 2 /\ calls[2] = [fn |-> "fetch_image_data", ev |-> "ok"]
    /\ (apiResult.some /\ ~apiResult.val.ok) =>
          /\ netCalls = <<apiUrl.val>>
          /\ fs = fsAtStart
          /\ dlArgs = None
          /\ ~destOfRun[run].some
C5_Witness ==
    /\ pc = "fetch_ret"
    /\ lastBody.some
    /\ lastBody.val.t = "obj"
    /\ Len(lastBody.val.fields) = 2
    /\ apiResult.val.ok

\* C6: a second run with the same pictures directory downloads to the path the
\* first run used; after it the directory holds the one file apod.jpg, and that
\* file holds the body the second run downloaded.
C6_SameFileOverwritten ==
    (run >= 2 /\ pc = "dl_ret" /\ dlResult.val.ok /\ destOfRun[run - 1].some) =>
        /\ destOfRun[run] = destOfRun[run - 1]
        /\ destOfRun[run] = Some(Dest)
        /\ ExistingFiles = {Dest}
        /\ createdEver = {Dest}
        /\ fs[Dest] = FileOf(content.val)
C6_Witness ==
    /\ run = 2
    /\ pc = "dl_ret"
    /\ dlResult.val.ok
    /\ destOfRun[1].some
    /\ fsAtStart[Dest].exists
    /\ fsAtStart[Dest].data # OldContent
    /\ fsAtStart[Dest].data # content.val

\* C7 as stated: every failure, a missing APOD_KEY included, is reported on the
\* error stream and the process returns success.
Panicked ==
    \/ ~apodKey.some
    \/ /\ apiResult.some /\ apiResult.val.ok
       /\ (~pictureDir.some \/ ~pictureDir.val.utf8)
StageFailed ==
    \/ apiResult.some /\ ~apiResult.val.ok
    \/ dlResult.some /\ ~dlResult.val.ok
    \/ swResult.some /\ ~swResult.val.ok
C7_Original ==
    pc = "exited" =>
        /\ exitCode = Some(SuccessExitCode)
        /\ (Panicked \/ StageFailed) => stderr # <<>>
\* C7 (amended): a failed fetch, download or wallpaper setting is reported as one
\* line on the error stream and the process returns success, a failed wallpaper
\* setting after the download included; a missing APOD_KEY (and a pictures
\* directory that is unknown or not UTF-8) is a panic instead: its message goes
\* to the error stream and the process ends with the panic exit status.
C7_ExitStatus ==
    pc = "exited" =>
        /\ exitCode = Some(IF Panicked THEN PanicExitCode ELSE SuccessExitCode)
        /\ (Panicked \/ StageFailed) <=> stderr # <<>>
        /\ Len(stderr) <= 1
        /\ (apiResult.some /\ ~apiResult.val.ok) =>
              stderr = <<Line("Failed to fetch image data: ", apiResult.val.err)>>
        /\ (dlResult.some /\ ~dlResult.val.ok) =>
              stderr = <<Line("Failed to download image: ", dlResult.val.err)>>
        /\ (swResult.some /\ ~swResult.val.ok) =>
              /\ stderr = <<Line("Failed to set wallpaper on Linux: ", swResult.val.err)>>
              /\ Returned("download_image", "ok")
        /\ ~apodKey.some =>
              stderr = <<Line("thread main panicked: ",
                              Error("APOD_KEY must be set in the environment", <<>>))>>
C7_Witness ==
    /\ pc = "exited"
    /\ swResult.some
    /\ ~swResult.val.ok
    /\ exitCode = Some(SuccessExitCode)

\* C8 as stated: with a missing parent directory download_image returns the
\* filesystem error, whatever else happens.
C8_Original ==
    (pc = "dl_ret" /\ ~dirExists) =>
        /\ dlResult = Some([ok |-> FALSE, err |-> NotFoundError])
        /\ fs = fsAtStart
\* C8 (amended): when download_image is called with a destination whose parent
\* directory does not exist, it returns an error as a value and never panics: the
\* filesystem error of File::create when the HTTP GET succeeded, the transport
\* error when the GET itself failed (the file is then never opened); no file is
\* created, main reports the failure and set_wallpaper is never called.
C8_MissingParent ==
    /\ [](( run >= 1 /\ ~dirExists /\ destOfRun[run].some ) =>
            /\ pc \in {"dl_get", "dl_create", "dl_ret", "exited"}
            /\ fs = fsAtStart
            /\ ExistingFiles = {}
            /\ dlResult.some => /\ ~dlResult.val.ok
                                /\ dlResult.val.err \in {NotFoundError, SendError}
            /\ cmds = <<>> /\ nativeCalls = <<>>
            /\ ~Returned("set_wallpaper", "call")
            /\ pc = "exited" =>
                  /\ exitCode = Some(SuccessExitCode)
                  /\ stderr = <<Line("Failed to download image: ", dlResult.val.err)>>)
    /\ [][(pc = "dl_create" /\ ~dirExists) =>
            /\ pc' = "dl_ret"
            /\ dlResult' = Some([ok |-> FALSE, err |-> NotFoundError])]_vars
C8_Witness ==
    /\ pc = "exited"
    /\ ~dirExists
    /\ dlResult = Some([ok |-> FALSE, err |-> NotFoundError])

\* C9 as stated: when the GET or the reading of the body fails, the destination
\* file has not been touched.
C9_Original ==
    (pc = "dl_ret" /\ ~dlResult.val.ok /\ dlResult.val.err \in {SendError, BodyError}) =>
        fs = fsAtStart
\* C9 (amended): download_image creates/truncates the destination file after the
\* GET succeeded and before the body is read; only the writing of the bytes waits
\* for the whole body.  If the GET (or File::create) fails the file is untouched;
\* if reading the body fails the file has already been created or truncated and
\* is left empty, a pre-existing file losing its content; a file holding part of
\* the body can only result from a failure of the write itself.
C9_TruncateBeforeBody ==
    /\ pc = "dl_bytes" => fs = [fsAtStart EXCEPT ![Dest] = FileOf(<<>>)] /\ content = None
    /\ pc = "dl_copy" => fs = [fsAtStart EXCEPT ![Dest] = FileOf(<<>>)] /\ content.some
    /\ (pc = "dl_ret" /\ ~dlResult.val.ok) =>
          /\ dlResult.val.err \in {SendError, NotFoundError, DeniedError} =>
                fs = fsAtStart
          /\ dlResult.val.err = BodyError =>
                fs = [fsAtStart EXCEPT ![Dest] = FileOf(<<>>)]
          /\ dlResult.val.err = WriteError =>
                /\ fs[Dest].exists
                /\ IsPrefix(fs[Dest].data, content.val)
                /\ fs[Dest].data # content.val
          /\ dlResult.val.err \in
                {SendError, NotFoundError, DeniedError, BodyError, WriteError}
C9_Witness ==
    /\ pc = "dl_ret"
    /\ dlResult.val = [ok |-> FALSE, err |-> BodyError]
    /\ fsAtStart[Dest] = FileOf(OldContent)
    /\ fs[Dest] = FileOf(<<>>)

\* C10: on Linux a call of set_wallpaper spawns at most one command, decided by
\* XDG_CURRENT_DESKTOP: gsettings whenever the value contains "GNOME", qdbus only
\* when it contains "KDE" and not "GNOME"; it returns Ok exactly when that command
\* ended with success, and the error carrying the command's standard error text
\* when the command ended without success.
DesktopValue == IF xdg.val.ok THEN xdg.val.val ELSE <<>>
C10_OneCommand ==
    (targetOs = "linux" /\ pc \in {"sw_ret", "exited"} /\ xdg.some) =>
        /\ Len(cmds) <= 1
        /\ Contains(DesktopValue, GNOME) => cmds = <<GsettingsCommand(dlResult.val.val)>>
        /\ (Contains(DesktopValue, KDE) /\ ~Contains(DesktopValue, GNOME)) =>
              cmds = <<QdbusCommand(dlResult.val.val)>>
        /\ \A i \in DOMAIN cmds :
              cmds[i].prog = "qdbus" =>
                 Contains(DesktopValue, KDE) /\ ~Contains(DesktopValue, GNOME)
        /\ cmdOut.some <=> cmds # <<>>
        /\ swResult.val.ok <=> (cmdOut.some /\ cmdOut.val.spawned /\ cmdOut.val.success)
        /\ (cmdOut.some /\ cmdOut.val.spawned /\ ~cmdOut.val.success) =>
              /\ swResult.val.err.msg =
                    (IF cmds[1].prog = "gsettings" THEN "Failed to set GNOME wallpaper: "
                     ELSE "Failed to set KDE wallpaper: ")
              /\ Len(swResult.val.err.detail) = Len(cmdOut.val.stderr)
              /\ \A i \in DOMAIN cmdOut.val.stderr :
                    swResult.val.err.detail[i] =
                       (IF cmdOut.val.stderr[i] < 128 THEN cmdOut.val.stderr[i]
                        ELSE ReplacementChar)
C10_Witness ==
    /\ pc = "sw_ret"
    /\ xdg = Some(Ok(GNOME \o <<":">> \o KDE))
    /\ cmdOut.some
    /\ cmdOut.val.spawned
    /\ ~cmdOut.val.success
    /\ Len(cmdOut.val.stderr) = 1
====
